---- MODULE Spec2Model ----
(***************************************************************************)
(* Model of app_zh.py: the start-up of the LightZero RAG demo (module      *)
(* level statements and the __main__ block) and the request handler        *)
(* rag_answer, run by the workers of the web UI's thread pool.             *)
(*                                                                         *)
(* A Python str is a sequence of one-character strings, so that            *)
(* str.replace, the <mark> markers and their overlap with the document's   *)
(* own characters are computed and not assumed.                            *)
(***************************************************************************)
EXTENDS Naturals, Sequences, FiniteSets, TLC

VARIABLES
    env,                  \* the process environment and the outside world, fixed at process start
    pc,                   \* position of the main thread in app_zh.py
    err,                  \* type of the exception that ended start-up, "" if none
    defined,              \* names bound in the module's global namespace
    QUESTION_LANG,        \* line 24
    chunks,               \* line 49
    retriever,            \* line 50
    rag_chain,            \* line 51
    orig_documents,       \* line 56
    concurrency,          \* line 104
    logged,               \* whether print() of line 68 has written an error line to stdout
    rpc,                  \* per worker: position inside rag_answer
    retrieved_documents,  \* per worker: local of rag_answer / execute_query
    answer,               \* per worker: local of rag_answer
    context,              \* per worker: local of rag_answer
    highlighted_document, \* per worker: local of rag_answer
    i,                    \* per worker: loop index of line 65
    exc,                  \* per worker: the exception raised inside the try block
    result                \* per worker: the pair rag_answer returned

startupVars == <<pc, err, defined, QUESTION_LANG, chunks, retriever, rag_chain,
                 orig_documents, concurrency>>
requestVars == <<rpc, retrieved_documents, answer, context, highlighted_document,
                 i, exc, result>>
vars == <<env, startupVars, logged, requestVars>>

(***************************************************************************)
(* Bounds of the model.                                                    *)
(***************************************************************************)
MaxDocLen == 3      \* longest document text (characters)
MaxChunkLen == 2    \* longest chunk text (characters)
MaxK == 2           \* most chunks one retrieval returns (the code asks for K)
MaxThreads == 2     \* most workers of the thread pool the model follows

(***************************************************************************)
(* Python values.                                                          *)
(***************************************************************************)
\* Python's None where a str is expected: a value that is no text.
PyNone == <<"None">>

IsStr(v) == v # PyNone

Alphabet == {"a", "x"}

Min(a, b) == IF a <= b THEN a ELSE b

SeqsUpTo(S, n) == UNION {[1..m -> S] : m \in 0..n}

\* The non-empty texts of at most n characters.
Texts(n) == SeqsUpTo(Alphabet, n) \ {<<>>}

(***************************************************************************)
(* str.replace and the markers of line 66.                                 *)
(***************************************************************************)
MarkOpen == <<"<", "m", "a", "r", "k", ">">>
MarkClose == <<"<", "/", "m", "a", "r", "k", ">">>

\* f"<mark>{c}</mark>"
Mark(c) == MarkOpen \o c \o MarkClose

\* A replace that stops after the first occurrence (str.replace(old, new, 1)).
RECURSIVE StrReplaceFirst(_, _, _)
StrReplaceFirst(s, old, new) ==
    IF Len(s) < Len(old) THEN s
    ELSE IF SubSeq(s, 1, Len(old)) = old
         THEN new \o SubSeq(s, Len(old) + 1, Len(s))
         ELSE <<Head(s)>> \o StrReplaceFirst(Tail(s), old, new)

\* s.replace(old, new): every occurrence of old, found scanning from the left
\* and resuming after the end of each match; an empty old matches before every
\* character and at the end.
RECURSIVE StrReplace(_, _, _)
StrReplace(s, old, new) ==
    IF old = <<>>
    THEN IF s = <<>> THEN new
         ELSE new \o <<Head(s)>> \o StrReplace(Tail(s), old, new)
    ELSE IF Len(s) < Len(old) THEN s
    ELSE IF SubSeq(s, 1, Len(old)) = old
         THEN new \o StrReplace(SubSeq(s, Len(old) + 1, Len(s)), old, new)
         ELSE <<Head(s)>> \o StrReplace(Tail(s), old, new)

(***************************************************************************)
(* int(): a run of decimal digits is its value, anything else raises       *)
(* ValueError.                                                             *)
(***************************************************************************)
DigitValue == [c \in {"0", "1", "2", "3", "4", "5", "6", "7", "8", "9"} |->
    CASE c = "0" -> 0 [] c = "1" -> 1 [] c = "2" -> 2 [] c = "3" -> 3
      [] c = "4" -> 4 [] c = "5" -> 5 [] c = "6" -> 6 [] c = "7" -> 7
      [] c = "8" -> 8 [] c = "9" -> 9]

IsIntLiteral(s) ==
    /\ s # <<>>
    /\ \A n \in 1..Len(s) : s[n] \in DOMAIN DigitValue

RECURSIVE IntOf(_)
IntOf(s) ==
    IF s = <<>> THEN 0
    ELSE 10 * IntOf(SubSeq(s, 1, Len(s) - 1)) + DigitValue[s[Len(s)]]

(***************************************************************************)
(* The environment: what the process finds when it starts.                 *)
(***************************************************************************)
LangCn == <<"c", "n">>
LangEn == <<"e", "n">>
LangFr == <<"f", "r">>

\* The texts the generation provider can return.
Answers == {"A1", "A2"}

\* The chunk texts of the one-worker runs: every text up to the bound.
ChunkTexts == Texts(MaxChunkLen)

\* Documents and split results of the runs that follow several workers.
FileTexts == {<<"x", "a">>, <<"a", "a", "x">>}
SplitOutputs == {
    {<<"x">>, <<"a">>},
    {<<"a", "a">>, <<"a", "x">>},
    {<<"a">>, PyNone} }

Envs ==
    [ QUESTION_LANG : {PyNone, LangCn, LangEn, LangFr},
      CONCURRENCY   : {PyNone, <<"2">>, <<"a", "b", "c">>},
      cpu_count     : {1},
      file_exists   : BOOLEAN,
      provider_ok   : BOOLEAN,
      file_text     : FileTexts,
      split_output  : SplitOutputs,
      answers       : {Answers} ]

\* One worker, a well-configured process, every document and every chunk text.
EnvsOneWorker ==
    [ QUESTION_LANG : {LangCn},
      CONCURRENCY   : {<<"1">>},
      cpu_count     : {1},
      file_exists   : {TRUE},
      provider_ok   : {TRUE},
      file_text     : Texts(MaxDocLen),
      split_output  : {ChunkTexts},
      answers       : {{"A1"}} ]

Workers == 1..MaxThreads

\* os.getenv(name): the value, or None when the variable is not set.
Getenv(name) == env[name]

(***************************************************************************)
(* The collaborators of rag_demo and of the libraries, as app_zh.py uses   *)
(* them: each call returns a value or raises.                              *)
(***************************************************************************)
Ok(v) == [ok |-> TRUE, value |-> v, error |-> ""]
Raises(e) == [ok |-> FALSE, value |-> {}, error |-> e]

\* Splits the file into chunks; a missing file is an error.
load_and_split_document(file_path) ==
    IF env.file_exists THEN Ok(env.split_output) ELSE Raises("FileNotFoundError")

\* Embeds the chunks and wraps the index in a retriever of the top k chunks;
\* an unreachable or unauthorized embedding provider is an error.
create_vector_store(cs, k) ==
    IF env.provider_ok THEN Ok([index |-> cs, k |-> k]) ELSE Raises("ProviderError")

\* Composes prompt template, model and output parser; calls no provider.
setup_rag_chain(model_name) == Ok([model_name |-> model_name])

\* TextLoader(file_path).load(): one Document holding the file's whole text.
TextLoaderLoad(file_path) ==
    IF env.file_exists THEN Ok(<<[page_content |-> env.file_text]>>)
    ELSE Raises("FileNotFoundError")

(***************************************************************************)
(* Start-up: the module-level statements, then the __main__ block.         *)
(***************************************************************************)
K == 5

NoRetriever == [index |-> {}, k |-> 0]
NoChain == [model_name |-> ""]
NoExc == [type |-> "", msg |-> ""]
NoResult == <<"", <<>>>>

Bundle == {"title", "title_markdown", "tos_markdown"}

InitAt(E) ==
    /\ env \in E
    /\ pc = "getenv"
    /\ err = ""
    /\ defined = {}
    /\ QUESTION_LANG = PyNone
    /\ chunks = {}
    /\ retriever = NoRetriever
    /\ rag_chain = NoChain
    /\ orig_documents = <<>>
    /\ concurrency = 0
    /\ logged = FALSE
    /\ rpc = [w \in Workers |-> "idle"]
    /\ retrieved_documents = [w \in Workers |-> <<>>]
    /\ answer = [w \in Workers |-> ""]
    /\ context = [w \in Workers |-> <<>>]
    /\ highlighted_document = [w \in Workers |-> <<>>]
    /\ i = [w \in Workers |-> 0]
    /\ exc = [w \in Workers |-> NoExc]
    /\ result = [w \in Workers |-> NoResult]

Init == InitAt(Envs)

InitOneWorker == InitAt(EnvsOneWorker)

\* An exception no handler catches ends the process.
Crash(e) ==
    /\ pc' = "crashed"
    /\ err' = e

\* Lines 23-24.
GetLang ==
    /\ pc = "getenv"
    /\ QUESTION_LANG' = Getenv("QUESTION_LANG")
    /\ defined' = defined \cup {"QUESTION_LANG"}
    /\ pc' = "assert"
    /\ UNCHANGED <<env, err, chunks, retriever, rag_chain, orig_documents,
                   concurrency, logged, requestVars>>

\* An assert compiled away: every value passes.
LangAcceptedAny(v) == TRUE

\* The condition of the assert of line 25.
LangAccepted(v) == v \in {LangCn, LangEn}

\* Line 25.
AssertLang ==
    /\ pc = "assert"
    /\ IF LangAccepted(QUESTION_LANG)
       THEN pc' = "bundle" /\ err' = err
       ELSE Crash("AssertionError")
    /\ UNCHANGED <<env, defined, QUESTION_LANG, chunks, retriever, rag_chain,
                   orig_documents, concurrency, logged, requestVars>>

\* Lines 27-45: the texts are bound in the "cn" branch, and only there.
DefineBundle ==
    /\ pc = "bundle"
    /\ defined' = defined \cup (IF QUESTION_LANG = LangCn THEN Bundle ELSE {})
    /\ pc' = "load_and_split"
    /\ UNCHANGED <<env, err, QUESTION_LANG, chunks, retriever, rag_chain,
                   orig_documents, concurrency, logged, requestVars>>

\* Lines 48-49.
LoadAndSplit ==
    /\ pc = "load_and_split"
    /\ LET r == load_and_split_document("file_path") IN
       IF r.ok
       THEN /\ chunks' = r.value
            /\ defined' = defined \cup {"file_path", "chunks"}
            /\ pc' = "create_vector_store"
            /\ err' = err
       ELSE /\ Crash(r.error)
            /\ defined' = defined \cup {"file_path"}
            /\ chunks' = chunks
    /\ UNCHANGED <<env, QUESTION_LANG, retriever, rag_chain, orig_documents,
                   concurrency, logged, requestVars>>

\* Line 50.
CreateVectorStore ==
    /\ pc = "create_vector_store"
    /\ LET r == create_vector_store(chunks, K) IN
       IF r.ok
       THEN /\ retriever' = r.value
            /\ defined' = defined \cup {"retriever"}
            /\ pc' = "setup_rag_chain"
            /\ err' = err
       ELSE /\ Crash(r.error)
            /\ UNCHANGED <<retriever, defined>>
    /\ UNCHANGED <<env, QUESTION_LANG, chunks, rag_chain, orig_documents,
                   concurrency, logged, requestVars>>

\* Line 51.
SetupRagChain ==
    /\ pc = "setup_rag_chain"
    /\ LET r == setup_rag_chain("gpt-4") IN
       IF r.ok
       THEN /\ rag_chain' = r.value
            /\ defined' = defined \cup {"rag_chain"}
            /\ pc' = "load_original"
            /\ err' = err
       ELSE /\ Crash(r.error)
            /\ UNCHANGED <<rag_chain, defined>>
    /\ UNCHANGED <<env, QUESTION_LANG, chunks, retriever, orig_documents,
                   concurrency, logged, requestVars>>

\* Lines 55-56.
LoadOriginal ==
    /\ pc = "load_original"
    /\ LET r == TextLoaderLoad("file_path") IN
       IF r.ok
       THEN /\ orig_documents' = r.value
            /\ defined' = defined \cup {"loader", "orig_documents"}
            /\ pc' = "blocks"
            /\ err' = err
       ELSE /\ Crash(r.error)
            /\ defined' = defined \cup {"loader"}
            /\ orig_documents' = orig_documents
    /\ UNCHANGED <<env, QUESTION_LANG, chunks, retriever, rag_chain,
                   concurrency, logged, requestVars>>

\* Lines 80-102: the UI reads title, title_markdown and tos_markdown; reading
\* a name that is not bound raises NameError.
BuildUI ==
    /\ pc = "blocks"
    /\ IF Bundle \subseteq defined
       THEN /\ defined' = defined \cup {"rag_demo"}
            /\ pc' = "concurrency"
            /\ err' = err
       ELSE /\ Crash("NameError")
            /\ defined' = defined
    /\ UNCHANGED <<env, QUESTION_LANG, chunks, retriever, rag_chain,
                   orig_documents, concurrency, logged, requestVars>>

\* A parse that falls back to the processor count on a value int() rejects.
ParseConcurrencyLenient ==
    /\ pc = "concurrency"
    /\ LET v == Getenv("CONCURRENCY") IN
       /\ concurrency' = IF v # PyNone /\ IsIntLiteral(v) THEN IntOf(v)
                         ELSE env.cpu_count
       /\ defined' = defined \cup {"concurrency"}
       /\ pc' = "launch"
       /\ err' = err
    /\ UNCHANGED <<env, QUESTION_LANG, chunks, retriever, rag_chain,
                   orig_documents, logged, requestVars>>

\* Line 104: int(os.environ.get('CONCURRENCY', os.cpu_count())).
ParseConcurrency ==
    /\ pc = "concurrency"
    /\ LET v == Getenv("CONCURRENCY") IN
       IF v = PyNone
       THEN /\ concurrency' = env.cpu_count
            /\ defined' = defined \cup {"concurrency"}
            /\ pc' = "launch"
            /\ err' = err
       ELSE IF IsIntLiteral(v)
       THEN /\ concurrency' = IntOf(v)
            /\ defined' = defined \cup {"concurrency"}
            /\ pc' = "launch"
            /\ err' = err
       ELSE /\ Crash("ValueError")
            /\ UNCHANGED <<concurrency, defined>>
    /\ UNCHANGED <<env, QUESTION_LANG, chunks, retriever, rag_chain,
                   orig_documents, logged, requestVars>>

\* Lines 105-107: queue().launch(max_threads=concurrency, ...); from here on
\* the workers of the pool run rag_answer.
Launch ==
    /\ pc = "launch"
    /\ pc' = "serving"
    /\ UNCHANGED <<env, err, defined, QUESTION_LANG, chunks, retriever, rag_chain,
                   orig_documents, concurrency, logged, requestVars>>

(***************************************************************************)
(* A request: rag_answer(question), lines 59-70, run by worker w.          *)
(* Answers and exception messages are atoms: no operation of the program   *)
(* looks inside them.  The locals of a finished call are kept until the    *)
(* worker's next call, so that properties can name them.                   *)
(***************************************************************************)
\* The literal of line 69 (in Chinese: "An error occurred while processing
\* your question, please try again later.").
FallbackMessage == "chu li nin de wen ti shi chu xian cuo wu, qing shao hou zai shi."

ConnectionError == [type |-> "ConnectionError", msg |-> "retriever unreachable"]
RateLimitError == [type |-> "RateLimitError", msg |-> "rate limit exceeded"]
TypeErrorReplace ==
    [type |-> "TypeError", msg |-> "replace() argument 1 must be str, not None"]

\* The classes derived from Exception among those the model raises (all).
ExceptionClasses == {"ConnectionError", "RateLimitError", "TypeError"}

\* The retrieval step of execute_query: up to k documents of the index, in the
\* retriever's ranking, or a failure of the provider.
RetrieveOutcomes(r) ==
    {Ok(d) : d \in SeqsUpTo({[page_content |-> c] : c \in r.index}, Min(r.k, MaxK))}
        \cup {Raises(ConnectionError)}

\* The generation step of execute_query: the model's text, or a failure.
GenerateOutcomes(chain, docs) ==
    {Ok(a) : a \in env.answers} \cup {Raises(RateLimitError)}

Active(w) ==
    /\ pc = "serving"
    /\ w <= concurrency

\* A handler that catches one class only.
CatchesTypeErrorOnly(e) == e.type = "TypeError"

\* "except Exception" of line 67.
Catches(e) == e.type \in ExceptionClasses

\* An exception raised inside the try block of lines 60-66.
RaiseIn(w, e) ==
    /\ exc' = [exc EXCEPT ![w] = e]
    /\ rpc' = [rpc EXCEPT ![w] = IF Catches(e) THEN "except" ELSE "propagated"]

\* One variable shared by all calls (a module-level highlighted_document).
FrameShared(w) == 1

\* The call frame that holds the locals of worker w's call: its own.
Frame(w) == w

\* The UI calls rag_answer on a free worker (lines 98-102).
Submit(w) ==
    /\ Active(w)
    /\ rpc[w] \in {"idle", "done", "propagated"}
    /\ rpc' = [rpc EXCEPT ![w] = "execute_query"]
    /\ retrieved_documents' = [retrieved_documents EXCEPT ![w] = <<>>]
    /\ answer' = [answer EXCEPT ![w] = ""]
    /\ context' = [context EXCEPT ![w] = <<>>]
    /\ highlighted_document' = [highlighted_document EXCEPT ![Frame(w)] = <<>>]
    /\ i' = [i EXCEPT ![w] = 0]
    /\ exc' = [exc EXCEPT ![w] = NoExc]
    /\ result' = [result EXCEPT ![w] = NoResult]
    /\ UNCHANGED <<env, startupVars, logged>>

\* Line 61, first half of execute_query: retrieval.
Retrieve(w) ==
    /\ Active(w)
    /\ rpc[w] = "execute_query"
    /\ \E o \in RetrieveOutcomes(retriever) :
        IF o.ok
        THEN /\ retrieved_documents' = [retrieved_documents EXCEPT ![w] = o.value]
             /\ rpc' = [rpc EXCEPT ![w] = "generate"]
             /\ exc' = exc
        ELSE /\ RaiseIn(w, o.error)
             /\ retrieved_documents' = retrieved_documents
    /\ UNCHANGED <<env, startupVars, logged, answer, context,
                   highlighted_document, i, result>>

\* Line 61, second half of execute_query: generation, then the assignment of
\* the returned pair.  When generation raises, nothing is assigned.
Generate(w) ==
    /\ Active(w)
    /\ rpc[w] = "generate"
    /\ \E o \in GenerateOutcomes(rag_chain, retrieved_documents[w]) :
        IF o.ok
        THEN /\ answer' = [answer EXCEPT ![w] = o.value]
             /\ rpc' = [rpc EXCEPT ![w] = "context"]
             /\ UNCHANGED <<exc, retrieved_documents>>
        ELSE /\ RaiseIn(w, o.error)
             /\ retrieved_documents' = [retrieved_documents EXCEPT ![w] = <<>>]
             /\ answer' = answer
    /\ UNCHANGED <<env, startupVars, logged, context, highlighted_document, i, result>>

\* Lines 63-64.
BeginHighlight(w) ==
    /\ Active(w)
    /\ rpc[w] = "context"
    /\ context' = [context EXCEPT ![w] =
            [n \in 1..Len(retrieved_documents[w]) |->
                retrieved_documents[w][n].page_content]]
    /\ highlighted_document' =
            [highlighted_document EXCEPT ![Frame(w)] = orig_documents[1].page_content]
    /\ i' = [i EXCEPT ![w] = 0]
    /\ rpc' = [rpc EXCEPT ![w] = "highlight"]
    /\ UNCHANGED <<env, startupVars, logged, retrieved_documents, answer, exc, result>>

\* Lines 65-66, one iteration; str.replace raises TypeError on an argument
\* that is not a str.
HighlightStep(w) ==
    /\ Active(w)
    /\ rpc[w] = "highlight"
    /\ i[w] < Len(context[w])
    /\ LET c == context[w][i[w] + 1] IN
       IF IsStr(c)
       THEN /\ highlighted_document' = [highlighted_document EXCEPT ![Frame(w)] =
                    StrReplace(highlighted_document[Frame(w)], c, Mark(c))]
            /\ i' = [i EXCEPT ![w] = i[w] + 1]
            /\ UNCHANGED <<rpc, exc>>
       ELSE /\ RaiseIn(w, TypeErrorReplace)
            /\ UNCHANGED <<highlighted_document, i>>
    /\ UNCHANGED <<env, startupVars, logged, retrieved_documents, answer, context, result>>

\* A return that also stores the marked-up text as the document.
ReturnStoring(w) ==
    /\ Active(w)
    /\ rpc[w] = "highlight"
    /\ i[w] = Len(context[w])
    /\ result' = [result EXCEPT ![w] = <<answer[w], highlighted_document[Frame(w)]>>]
    /\ orig_documents' = <<[page_content |-> highlighted_document[Frame(w)]]>>
    /\ rpc' = [rpc EXCEPT ![w] = "done"]
    /\ UNCHANGED <<env, pc, err, defined, QUESTION_LANG, chunks, retriever, rag_chain,
                   concurrency, logged, retrieved_documents, answer, context,
                   highlighted_document, i, exc>>

\* Line 70, after the loop has ended.
Return(w) ==
    /\ Active(w)
    /\ rpc[w] = "highlight"
    /\ i[w] = Len(context[w])
    /\ result' = [result EXCEPT ![w] = <<answer[w], highlighted_document[Frame(w)]>>]
    /\ rpc' = [rpc EXCEPT ![w] = "done"]
    /\ UNCHANGED <<env, startupVars, logged, retrieved_documents, answer, context,
                   highlighted_document, i, exc>>

\* A handler that shows the exception and what was highlighted so far.
ExceptReturnLeaky(e, partial) == <<e.msg, partial>>

\* The pair of line 69.
ExceptReturn(e, partial) == <<FallbackMessage, <<>>>>

\* Lines 67-69.
ExceptHandler(w) ==
    /\ Active(w)
    /\ rpc[w] = "except"
    /\ logged' = TRUE
    /\ result' = [result EXCEPT ![w] =
            ExceptReturn(exc[w], highlighted_document[Frame(w)])]
    /\ rpc' = [rpc EXCEPT ![w] = "done"]
    /\ UNCHANGED <<env, startupVars, retrieved_documents, answer, context,
                   highlighted_document, i, exc>>

Next ==
    \/ GetLang
    \/ AssertLang
    \/ DefineBundle
    \/ LoadAndSplit
    \/ CreateVectorStore
    \/ SetupRagChain
    \/ LoadOriginal
    \/ BuildUI
    \/ ParseConcurrency
    \/ Launch
    \/ \E w \in Workers :
        \/ Submit(w)
        \/ Retrieve(w)
        \/ Generate(w)
        \/ BeginHighlight(w)
        \/ HighlightStep(w)
        \/ Return(w)
        \/ ExceptHandler(w)

\* The process from its start, in every environment, up to two workers.
Spec == Init /\ [][Next]_vars

\* A well-configured process with one worker, over every document and chunk.
SpecOneWorker == InitOneWorker /\ [][Next]_vars

(***************************************************************************)
(* Vocabulary of the properties.                                           *)
(***************************************************************************)
Done(w) == rpc[w] = "done"
Succeeded(w) == Done(w) /\ exc[w] = NoExc
Failed(w) == Done(w) /\ exc[w] # NoExc

PageContents(docs) == [n \in 1..Len(docs) |-> docs[n].page_content]

\* Lines 64-66 as a function of the text and the chunk texts: the value of
\* highlighted_document after the loop has run over cs.
RECURSIVE HighlightAll(_, _)
HighlightAll(text, cs) ==
    IF cs = <<>> THEN text
    ELSE LET before == HighlightAll(text, SubSeq(cs, 1, Len(cs) - 1))
             c == cs[Len(cs)]
         IN StrReplace(before, c, Mark(c))

\* old stands in s at position p.
MatchAt(s, old, p) ==
    /\ p >= 1
    /\ p + Len(old) - 1 <= Len(s)
    /\ SubSeq(s, p, p + Len(old) - 1) = old

Occurs(s, old) == \E p \in 1..Len(s) : MatchAt(s, old, p)

\* The positions of s covered by the occurrence of old at p.
Range(old, p) == p..(p + Len(old) - 1)

\* The starts of the occurrences a left-to-right scan of s picks from position
\* p on, each search resuming after the end of the last match (old non-empty).
RECURSIVE ScanStarts(_, _, _)
ScanStarts(s, old, p) ==
    IF p > Len(s) THEN {}
    ELSE IF MatchAt(s, old, p) THEN {p} \cup ScanStarts(s, old, p + Len(old))
    ELSE ScanStarts(s, old, p + 1)

RECURSIVE Concat(_, _, _)
Concat(piece, from, to) ==
    IF from > to THEN <<>> ELSE piece[from] \o Concat(piece, from + 1, to)

\* s with each scanned occurrence of old replaced by new, stated position by
\* position: a start gives new, a position inside a match nothing, any other
\* position its own character.
ReplaceAllRef(s, old, new) ==
    LET G == ScanStarts(s, old, 1)
        piece == [p \in 1..Len(s) |->
                    IF p \in G THEN new
                    ELSE IF \E g \in G : p \in Range(old, g) THEN <<>>
                    ELSE <<s[p]>>]
    IN Concat(piece, 1, Len(s))

\* The left fold of ReplaceAllRef over the chunks, in retrieval order.
RECURSIVE NaiveFold(_, _)
NaiveFold(text, cs) ==
    IF cs = <<>> THEN text
    ELSE NaiveFold(ReplaceAllRef(text, Head(cs), Mark(Head(cs))), Tail(cs))

\* A marked-up text read from the left: <mark> opens a highlight, </mark>
\* closes one, any other character is text at the current nesting depth.
RECURSIVE ParseMarks(_, _)
ParseMarks(o, d) ==
    IF o = <<>> THEN <<>>
    ELSE IF MatchAt(o, MarkOpen, 1)
         THEN ParseMarks(SubSeq(o, Len(MarkOpen) + 1, Len(o)), d + 1)
    ELSE IF MatchAt(o, MarkClose, 1)
         THEN ParseMarks(SubSeq(o, Len(MarkClose) + 1, Len(o)), IF d > 0 THEN d - 1 ELSE 0)
    ELSE <<[ch |-> Head(o), depth |-> d]>> \o ParseMarks(Tail(o), d)

TextOf(parsed) == [n \in 1..Len(parsed) |-> parsed[n].ch]

\* Every <mark> and every </mark> removed.
StripMarks(o) == StrReplace(StrReplace(o, MarkOpen, <<>>), MarkClose, <<>>)

\* The occurrences of the chunk texts cs in s: pairs of chunk index and start.
Occurrences(s, cs) ==
    {<<n, p>> \in (1..Len(cs)) \X (1..Len(s)) : MatchAt(s, cs[n], p)}

\* The positions of s inside an occurrence of a chunk text.
Covered(s, cs) == {q \in 1..Len(s) : \E o \in Occurrences(s, cs) : q \in Range(cs[o[1]], o[2])}

\* The chunk texts are present in s and no two of their occurrences share a
\* position.
NonOverlappingPresent(s, cs) ==
    /\ \A n \in 1..Len(cs) : Occurs(s, cs[n])
    /\ \A o1, o2 \in Occurrences(s, cs) :
        o1 # o2 => Range(cs[o1[1]], o1[2]) \cap Range(cs[o2[1]], o2[2]) = {}

\* cs without its n-th element.
Without(cs, n) == SubSeq(cs, 1, n - 1) \o SubSeq(cs, n + 1, Len(cs))

(***************************************************************************)
(* C1.  Whatever exception execute_query or the highlighting loop raises,  *)
(* rag_answer does not raise: the call ends and returns the fixed fallback *)
(* message with an empty document, whatever the exception's type and       *)
(* message and whatever had been highlighted before it was raised.         *)
(***************************************************************************)
C1_FallbackOnException ==
    \A w \in Workers :
        /\ rpc[w] # "propagated"
        /\ Failed(w) => result[w] = <<FallbackMessage, <<>>>>

\* A call whose loop had marked a chunk before a later chunk raised.
C1_Witness ==
    \E w \in Workers :
        /\ Failed(w)
        /\ exc[w].type = "TypeError"
        /\ i[w] >= 1
        /\ highlighted_document[w] # env.file_text

(***************************************************************************)
(* C2.  The document a successful rag_answer returns is the original text  *)
(* with every occurrence of every retrieved chunk text inside a            *)
(* <mark>...</mark> pair: read without its markers it is the original text,*)
(* and every character of every occurrence of a chunk text in the original *)
(* lies inside a highlight, chunks with overlapping ranges included.       *)
(***************************************************************************)
C2_EveryOccurrenceMarked ==
    \A w \in Workers :
        Succeeded(w) =>
            LET orig == env.file_text
                parsed == ParseMarks(result[w][2], 0)
            IN /\ TextOf(parsed) = orig
               /\ \A q \in Covered(orig, context[w]) : parsed[q].depth >= 1

(***************************************************************************)
(* C3.  When the retrieved chunk texts are present in the document and no  *)
(* two of their occurrences overlap, the output marks exactly those        *)
(* occurrences: with every <mark> and </mark> removed it is the original   *)
(* text, the characters of the occurrences are highlighted once and no     *)
(* other character is highlighted or changed.                              *)
(***************************************************************************)
C3_DisjointChunksMarkedExactly ==
    \A w \in Workers :
        (Succeeded(w) /\ NonOverlappingPresent(env.file_text, context[w])) =>
            LET orig == env.file_text
                parsed == ParseMarks(result[w][2], 0)
            IN /\ StripMarks(result[w][2]) = orig
               /\ TextOf(parsed) = orig
               /\ \A q \in 1..Len(orig) :
                    parsed[q].depth = IF q \in Covered(orig, context[w]) THEN 1 ELSE 0

(***************************************************************************)
(* C4.  A retrieved chunk whose text does not occur in the original        *)
(* document changes nothing: the returned document is the one returned     *)
(* for the retrieval result without that chunk, wherever the chunk stands  *)
(* in the retrieval order.                                                 *)
(***************************************************************************)
C4_AbsentChunkNoEffect ==
    \A w \in Workers :
        Succeeded(w) =>
            \A n \in 1..Len(context[w]) :
                ~Occurs(env.file_text, context[w][n]) =>
                    result[w][2] = HighlightAll(env.file_text, Without(context[w], n))

(***************************************************************************)
(* C5.  No state is carried from one request to the next: while the        *)
(* process serves, the original document, the chunk set, the retriever and *)
(* the chain are what start-up made them, the process is still serving     *)
(* after a failed call, every call starts its highlighting from the        *)
(* unmarked original text, and a finished call has returned what a first   *)
(* call with the same retrieval result and answer returns.                 *)
(***************************************************************************)
C5_NoCrossRequestState ==
    /\ logged => pc = "serving"
    /\ pc = "serving" =>
        /\ orig_documents = <<[page_content |-> env.file_text]>>
        /\ chunks = env.split_output
        /\ retriever = [index |-> env.split_output, k |-> K]
        /\ rag_chain = [model_name |-> "gpt-4"]
        /\ \A w \in Workers :
            /\ (rpc[w] = "highlight" /\ i[w] = 0) =>
                    highlighted_document[w] = env.file_text
            /\ Succeeded(w) =>
                    result[w] = <<answer[w], HighlightAll(env.file_text,
                                        PageContents(retrieved_documents[w]))>>
            /\ Failed(w) => result[w] = <<FallbackMessage, <<>>>>

\* One worker: a call that failed, then a later call that returned a marked-up
\* document.
C5_Witness ==
    /\ concurrency = 1
    /\ logged
    /\ Succeeded(1)
    /\ result[1][2] # env.file_text

(***************************************************************************)
(* C6.  With QUESTION_LANG missing or different from 'cn' and 'en',        *)
(* start-up ends at the assert with AssertionError: no document is loaded  *)
(* or split, no index and no chain are built, no request is served, and    *)
(* the value read is never replaced by a default.                          *)
(***************************************************************************)
C6_InvalidLangStopsAtAssert ==
    env.QUESTION_LANG \notin {LangCn, LangEn} =>
        /\ pc \in {"getenv", "assert", "crashed"}
        /\ pc = "crashed" => err = "AssertionError"
        /\ pc # "getenv" => QUESTION_LANG = env.QUESTION_LANG
        /\ defined \subseteq {"QUESTION_LANG"}
        /\ chunks = {}
        /\ retriever = NoRetriever
        /\ rag_chain = NoChain
        /\ orig_documents = <<>>
        /\ \A w \in Workers : rpc[w] = "idle"

\* A process that nothing but the language selector stops.
C6_Witness ==
    /\ env.QUESTION_LANG \notin {LangCn, LangEn}
    /\ env.file_exists
    /\ env.provider_ok
    /\ env.CONCURRENCY = <<"2">>
    /\ pc = "crashed"
    /\ err = "AssertionError"

(***************************************************************************)
(* C7.  Requests running at the same time on different workers do not      *)
(* touch each other: at every point of every interleaving a call's         *)
(* context is that of its own retrieval, its highlighted_document is the   *)
(* original text marked with the chunks its own loop has passed, it        *)
(* returns its own answer with that document, and it returns the fallback  *)
(* only for an exception of its own.                                       *)
(***************************************************************************)
C7_RequestsIsolated ==
    \A w \in Workers :
        /\ rpc[w] = "highlight" =>
            /\ context[w] = PageContents(retrieved_documents[w])
            /\ highlighted_document[w] =
                    HighlightAll(env.file_text, SubSeq(context[w], 1, i[w]))
        /\ Succeeded(w) =>
            /\ answer[w] \in Answers
            /\ result[w][1] = answer[w]
            /\ result[w][2] = HighlightAll(env.file_text, context[w])
        /\ result[w][1] = FallbackMessage => Failed(w)
        /\ exc[w].type = "TypeError" =>
                \E n \in 1..Len(context[w]) : context[w][n] = PyNone

\* Two calls in the middle of their loops, with different marked-up texts.
C7_Witness ==
    /\ rpc[1] = "highlight"
    /\ rpc[2] = "highlight"
    /\ i[1] = 1
    /\ i[2] = 1
    /\ Len(context[1]) = 2
    /\ highlighted_document[1] # highlighted_document[2]
    /\ highlighted_document[1] # env.file_text
    /\ highlighted_document[2] # env.file_text

(***************************************************************************)
(* C8.  The document a successful rag_answer returns is the left fold of   *)
(* replace-all over the retrieved chunks in retrieval order, starting from *)
(* the original text: each chunk's occurrences are searched, from the left *)
(* and without overlap, in the text as the earlier chunks left it.         *)
(***************************************************************************)
C8_NaiveSequentialReplace ==
    \A w \in Workers :
        Succeeded(w) =>
            result[w][2] = NaiveFold(env.file_text, PageContents(retrieved_documents[w]))

\* "aax" with chunks "aa" then "ax": the second chunk straddles the marker put
\* after the first and is not matched any more.
C8_Witness ==
    /\ Succeeded(1)
    /\ env.file_text = <<"a", "a", "x">>
    /\ context[1] = << <<"a", "a">>, <<"a", "x">> >>
    /\ result[1][2] = Mark(<<"a", "a">>) \o <<"x">>

(***************************************************************************)
(* C9.  The process serves only after every start-up step has succeeded,   *)
(* in order: validation, load and split, index, chain, original document,  *)
(* UI, concurrency override.  A request runs only while serving; a process *)
(* whose start-up failed has served nothing.                               *)
(***************************************************************************)
C9_ServingOnlyAfterStartup ==
    /\ pc = "serving" =>
        /\ env.QUESTION_LANG \in {LangCn, LangEn}
        /\ env.file_exists
        /\ env.provider_ok
        /\ env.CONCURRENCY = PyNone \/ IsIntLiteral(env.CONCURRENCY)
        /\ err = ""
        /\ {"QUESTION_LANG", "chunks", "retriever", "rag_chain", "orig_documents",
            "rag_demo", "concurrency"} \subseteq defined
    /\ "concurrency" \in defined => "rag_demo" \in defined
    /\ "rag_demo" \in defined => "orig_documents" \in defined
    /\ "orig_documents" \in defined => "rag_chain" \in defined
    /\ "rag_chain" \in defined => "retriever" \in defined
    /\ "retriever" \in defined => "chunks" \in defined
    /\ "chunks" \in defined => "QUESTION_LANG" \in defined
    /\ \A w \in Workers :
        (rpc[w] # "idle" \/ result[w] # NoResult) => pc = "serving"
    /\ pc = "crashed" => err # ""

\* Every step but the last succeeded: CONCURRENCY is no integer.
C9_Witness ==
    /\ pc = "crashed"
    /\ err = "ValueError"
    /\ "rag_demo" \in defined
    /\ \A w \in Workers : rpc[w] = "idle"

(***************************************************************************)
(* C10.  For each value the assert accepts, 'cn' and 'en', the texts       *)
(* title, title_markdown and tos_markdown are bound when the UI is built,  *)
(* and start-up does not end on a name that is not defined.                *)
(***************************************************************************)
C10_BundleDefinedForAcceptedLang ==
    env.QUESTION_LANG \in {LangCn, LangEn} =>
        /\ pc = "blocks" => Bundle \subseteq defined
        /\ err # "NameError"

====
